---- MODULE Spec2Model ----
(***************************************************************************)
(* Model of the two reconcilers of the agent:                              *)
(*   - pkg/controllers/requirement: Reconciler.Reconcile (local -> remote  *)
(*     requirement sync with the finalizer-driven deletion protocol and    *)
(*     the connection-secret copy);                                        *)
(*   - pkg/controllers/cluster/syncer: Reconciler.Reconcile and            *)
(*     Reconciler.Cleanup (remote -> local sync of a family, orphan sweep).*)
(* A Reconcile invocation is a process of a worker: one action per store   *)
(* call, with the code between two store calls folded into the action of   *)
(* the call before it.  Each invocation keeps the list of the store calls  *)
(* it issued (ops) and the value it returned (result).                     *)
(***************************************************************************)
EXTENDS Integers, Sequences, FiniteSets, TLC

VARIABLES
    ctrl,       \* which Reconciler this controller instance is
    healthy,    \* FALSE while the stores may still fail
    queue,      \* identities the scheduler has pending
    pc,         \* per worker: position inside Reconcile
    req,        \* per worker: req.NamespacedName
    ops,        \* per worker: store calls issued by the invocation
    result,     \* per worker: (reconcile.Result, error) returned
    lstore,     \* requirement: the instance in the local store
    rstore,     \* requirement: the instance in the remote store
    rsecret,    \* requirement: the remote connection secret, NoSecret if absent
    lsecret,    \* requirement: the secret copy in the local store
    re,         \* per worker, requirement: re
    reRemote,   \* per worker, requirement: reRemote
    reSeen,     \* per worker: local instance as last returned by the store
    rrSeen,     \* per worker: remote instance as last returned by the store
    rs,         \* per worker, requirement: rs
    crd,        \* syncer: the schema definition in the local store
    slocal,     \* syncer: local instances of the family, 0 if absent
    sremote,    \* syncer: remote instances of the family, 0 if absent
    instance,   \* per worker, syncer: instance
    listed,     \* per worker, syncer: names read by the two lists of Cleanup
    removalList,\* per worker, syncer: removalList
    sweep,      \* per worker, syncer: how the pass of Cleanup relates to the last one
    swept       \* syncer: a sweep ended without error and no store changed since

common == <<ctrl, healthy, queue, pc, req, ops, result>>
reqStores == <<lstore, rstore, rsecret, lsecret>>
reqLocals == <<re, reRemote, reSeen, rrSeen, rs>>
syncStores == <<crd, slocal, sremote>>
syncLocals == <<instance, listed, removalList, sweep>>
vars == <<common, reqStores, reqLocals, syncStores, syncLocals, swept>>

----------------------------------------------------------------------------
\* Bounds of the model.
NumWorkers == 2
NumNames == 2
MaxSpec == 2
MaxStatus == 1
MaxGen == 1
MaxData == 2

\* Durations, in seconds.
maxConcurrency == 5
longWait == 60
shortWait == 30
tinyWait == 5

Min(a, b) == IF a < b THEN a ELSE b
Workers == 1..Min(NumWorkers, maxConcurrency)
NameSeq == <<"A", "B", "C", "D">>
Names == {NameSeq[i] : i \in 1..Min(NumNames, Len(NameSeq))}
ReqKey == "ns-local/req"
CrdKey == "crd"
NoKey == "-"

local == "local cluster: "
remote == "remote cluster: "
errGetRequirement == "cannot get requirement"
errDeleteRequirement == "cannot delete requirement"
errCreateRequirement == "cannot create requirement"
errUpdateRequirement == "cannot update requirement"
errRemoveFinalizer == "cannot remove finalizer"
errAddFinalizer == "cannot add finalizer"
errGetSecret == "cannot get secret"
errUpdateSecretOfRequirement == "cannot update secret of the requirement"
errConvertStatusToLocal == "cannot convert status of the requirement for the local object"

----------------------------------------------------------------------------
\* Errors.  A store call returns "nil", "notfound", or another failure.
Nil == "nil"
NotFound == "notfound"
Conflict == "conflict"
Exists == "exists"
Boom == "boom"

IsNotFound(e) == e = NotFound
IgnoreNotFound(e) == IF IsNotFound(e) THEN Nil ELSE e

\* An error as Reconcile returns it: the messages wrapped around a cause.
NilErr == [msg |-> <<>>, cause |-> Nil]
WrapErr(err, m) == IF err = NilErr THEN NilErr
                   ELSE [msg |-> <<m>> \o err.msg, cause |-> err.cause]
Wrap(e, m) == WrapErr([msg |-> <<>>, cause |-> e], m)

\* reconcile.Result and the error returned with it.
Result(after, err) == [Requeue |-> FALSE, RequeueAfter |-> after, err |-> err]
NoResult == [Requeue |-> FALSE, RequeueAfter |-> -1, err |-> NilErr]

\* The scheduler queues the identity again after an error or a requeue directive.
Requeues(r) == r.err # NilErr \/ r.RequeueAfter > 0 \/ r.Requeue

\* The scheduler hands an identity to a free worker; the workers are alike, so
\* the first free one takes it.
FirstFree(w) == pc[w] = "idle" /\ \A v \in Workers : v < w => pc[v] # "idle"

Op(side, verb, key, e) == [side |-> side, verb |-> verb, key |-> key, err |-> e]
IsWrite(o) == o.verb \notin {"Get", "List"}

\* Outcomes of store calls: what the store's state decides, or a failure of
\* the call itself while the stores are not healthy.
Faults == IF healthy THEN {} ELSE {Boom}
GetErrs(exists) == {IF exists THEN Nil ELSE NotFound} \cup Faults
UpdateErrs(stored, seen) ==
    {IF ~stored.exists THEN NotFound ELSE IF stored # seen THEN Conflict ELSE Nil} \cup Faults
CreateErrs(exists) == {IF exists THEN Exists ELSE Nil} \cup Faults
DeleteErrs(exists) == {IF exists THEN Nil ELSE NotFound} \cup Faults
ListErrs == {Nil} \cup Faults

----------------------------------------------------------------------------
\* Objects of the requirement family.
NoObj == [exists |-> FALSE, deleted |-> FALSE, fin |-> FALSE,
          spec |-> 0, status |-> 0, ref |-> FALSE]
NoSecret == [exists |-> FALSE, name |-> "", namespace |-> "", data |-> 0, owner |-> {}]

\* The requested identity is ReqKey: its namespace, the name of the connection
\* secret it declares, and the names a secret of the remote store may carry.
LocalNamespace == "ns-local"
LocalSecretName == "s-local"
RemoteOwner == "ns-remote/owner"
SecretNames == {LocalSecretName, "s-remote"}
Namespaces == {LocalNamespace, "ns-remote"}
GetNamespace(o) == LocalNamespace
GetWriteConnectionSecretToReference(o) == IF o.ref THEN LocalSecretName ELSE ""

\* meta.ReferenceTo, meta.AsController and meta.AddOwnerReference.
ReferenceTo(o) == [ref |-> ReqKey, controller |-> FALSE]
AsController(r) == [r EXCEPT !.controller = TRUE]
AddOwnerReference(s, r) == [s EXCEPT !.owner = {x \in @ : x.ref # r.ref} \cup {r}]

WasDeleted(o) == o.deleted
WasCreated(o) == o.exists

\* The store erases an object that is marked for deletion and has no finalizer.
Stored(o) == IF o.deleted /\ ~o.fin THEN NoObj ELSE o

----------------------------------------------------------------------------
\* Steps shared by the actions of an invocation.
Log(w, o) == ops' = [ops EXCEPT ![w] = Append(@, o)]
Goto(w, l) == pc' = [pc EXCEPT ![w] = l] /\ UNCHANGED result
Return(w, r) == pc' = [pc EXCEPT ![w] = "done"] /\ result' = [result EXCEPT ![w] = r]

\* A change of the watched local instance is an event for its identity.
ReqNotify == queue' = IF lstore' # lstore THEN queue \cup {ReqKey} ELSE queue

----------------------------------------------------------------------------
\* Requirement reconciler: the decisions of Reconcile.

\* resource.OverrideInputMetadata and resource.EqualizeRequirementSpec: the
\* remote copy takes the desired state of the local instance.
EqualizeRequirementSpec(from, to) == [to EXCEPT !.spec = from.spec, !.ref = from.ref]
\* resource.PropagateStatus: the local copy takes the status of the remote one.
PropagateStatus(from, to) == [to EXCEPT !.status = from.status]

\* Variant: a missing local instance is retried after the short wait.
ReqLocalGetResultRetry(e) ==
    IF IsNotFound(e) THEN Result(shortWait, NilErr)
    ELSE Result(shortWait, Wrap(e, local \o errGetRequirement))

ReqLocalGetResult(e) ==
    IF IsNotFound(e) THEN Result(0, NilErr)
    ELSE Result(shortWait, Wrap(e, local \o errGetRequirement))

\* Variants of the branch after the remote fetch: one that forgets the
\* deletion timestamp, one that skips the confirmation of absence.
ReqAfterRemoteGetAnyAbsent(o, e) ==
    IF IgnoreNotFound(e) # Nil THEN "fail"
    ELSE IF IsNotFound(e) THEN "removeFinalizer"
         ELSE IF WasDeleted(o) THEN "remoteDelete" ELSE "addFinalizer"

ReqAfterRemoteGetSkipAhead(o, e) ==
    IF IgnoreNotFound(e) # Nil THEN "fail"
    ELSE IF WasDeleted(o) THEN "removeFinalizer" ELSE "addFinalizer"

\* Variant: during a deletion any failure of the remote fetch is taken for
\* the absence of the remote instance.
ReqAfterRemoteGetErrAsAbsent(o, e) ==
    IF WasDeleted(o)
    THEN IF e # Nil THEN "removeFinalizer" ELSE "remoteDelete"
    ELSE IF IgnoreNotFound(e) # Nil THEN "fail" ELSE "addFinalizer"

\* Variant: a deleted instance whose remote is absent is synced again.
ReqAfterRemoteGetRecreate(o, e) ==
    IF IgnoreNotFound(e) # Nil THEN "fail"
    ELSE IF WasDeleted(o) /\ ~IsNotFound(e) THEN "remoteDelete"
    ELSE "addFinalizer"

ReqAfterRemoteGet(o, e) ==
    IF IgnoreNotFound(e) # Nil THEN "fail"
    ELSE IF WasDeleted(o)
         THEN IF IsNotFound(e) THEN "removeFinalizer" ELSE "remoteDelete"
         ELSE "addFinalizer"

\* Variant: a requeue after the finalizer is gone.
ReqRemoveFinalizerResultRequeue(e) ==
    IF e # Nil THEN Result(shortWait, Wrap(e, local \o errRemoveFinalizer))
    ELSE Result(tinyWait, NilErr)

ReqRemoveFinalizerResult(e) ==
    IF e # Nil THEN Result(shortWait, Wrap(e, local \o errRemoveFinalizer))
    ELSE Result(0, NilErr)

\* Variants: the retry wait instead of the re-check wait, and no re-check at all.
ReqRemoteDeleteResultShort(e) ==
    IF IgnoreNotFound(e) # Nil THEN Result(shortWait, Wrap(e, remote \o errDeleteRequirement))
    ELSE Result(shortWait, NilErr)

ReqRemoteDeleteResultNoRequeue(e) ==
    IF IgnoreNotFound(e) # Nil THEN Result(shortWait, Wrap(e, remote \o errDeleteRequirement))
    ELSE Result(0, NilErr)

ReqRemoteDeleteResult(e) ==
    IF IgnoreNotFound(e) # Nil THEN Result(shortWait, Wrap(e, remote \o errDeleteRequirement))
    ELSE Result(tinyWait, NilErr)

\* Variant: a failure of AddFinalizer is not looked at.
ReqAddFinalizerFailedNever(e) == FALSE

ReqAddFinalizerFailed(e) == e # Nil

ReqAfterAddFinalizer(o) == IF ~WasCreated(o) THEN "remoteCreate" ELSE "remoteUpdate"

\* Variant: the error of an Update is not looked at.
ReqUpdateFailedNever(e) == FALSE

\* Variant: a conflict reported by an Update is not taken for a failure.
ReqUpdateFailedButConflict(e) == e \notin {Nil, Conflict}

\* The test of the error that r.remote.Update, r.local.Update and
\* r.local.Status().Update return.
ReqUpdateFailed(e) == e # Nil

ReqNoSecretResult == Result(shortWait, NilErr)

\* Variant: every failure of the secret fetch is taken for a missing secret.
ReqSecretGetResultDeferAll(e) == Result(longWait, NilErr)

\* Variant: a missing remote secret is returned as a failure.
ReqSecretGetResultNotFoundFails(e) == Result(shortWait, Wrap(e, remote \o errGetSecret))

ReqSecretGetResult(e) ==
    IF IgnoreNotFound(e) # Nil THEN Result(shortWait, Wrap(e, remote \o errGetSecret))
    ELSE Result(longWait, NilErr)

ReqApplySecretResult(e) ==
    IF e # Nil THEN Result(shortWait, Wrap(e, local \o errUpdateSecretOfRequirement))
    ELSE Result(longWait, NilErr)

\* Variant: the copy is renamed and not given to the instance.
SecretCopyUnowned(o, s) ==
    [s EXCEPT !.name = GetWriteConnectionSecretToReference(o),
              !.namespace = GetNamespace(o)]

\* The copy of the remote secret rs that Reconcile applies for the instance o.
SecretCopy(o, s) ==
    AddOwnerReference([s EXCEPT !.name = GetWriteConnectionSecretToReference(o),
                                !.namespace = GetNamespace(o)],
                      AsController(ReferenceTo(o)))

----------------------------------------------------------------------------
\* Requirement reconciler: the invocation, one action per store call.

ReqStart(w) ==
    /\ ctrl = "requirement"
    /\ FirstFree(w)
    /\ ReqKey \in queue
    /\ \A v \in Workers : pc[v] = "idle"
    /\ queue' = queue \ {ReqKey}
    /\ pc' = [pc EXCEPT ![w] = "localGet"]
    /\ req' = [req EXCEPT ![w] = ReqKey]
    /\ UNCHANGED <<ctrl, healthy, ops, result, reqStores, reqLocals,
                   syncStores, syncLocals, swept>>

ReqLocalGet(w) ==
    /\ ctrl = "requirement"
    /\ pc[w] = "localGet"
    /\ \E e \in GetErrs(lstore.exists) :
        /\ Log(w, Op("local", "Get", ReqKey, e))
        /\ IF e = Nil
           THEN /\ re' = [re EXCEPT ![w] = lstore]
                /\ reSeen' = [reSeen EXCEPT ![w] = lstore]
                /\ Goto(w, "remoteGet")
           ELSE /\ UNCHANGED <<re, reSeen>>
                /\ Return(w, ReqLocalGetResult(e))
    /\ UNCHANGED <<ctrl, healthy, queue, req, reqStores, reRemote, rrSeen, rs,
                   syncStores, syncLocals, swept>>

ReqRemoteGet(w) ==
    /\ ctrl = "requirement"
    /\ pc[w] = "remoteGet"
    /\ \E e \in GetErrs(rstore.exists) :
        /\ Log(w, Op("remote", "Get", ReqKey, e))
        /\ reRemote' = [reRemote EXCEPT ![w] = IF e = Nil THEN rstore ELSE NoObj]
        /\ rrSeen' = [rrSeen EXCEPT ![w] = IF e = Nil THEN rstore ELSE NoObj]
        /\ IF ReqAfterRemoteGet(re[w], e) = "fail"
           THEN Return(w, Result(shortWait, Wrap(e, remote \o errGetRequirement)))
           ELSE Goto(w, ReqAfterRemoteGet(re[w], e))
    /\ UNCHANGED <<ctrl, healthy, queue, req, reqStores, re, reSeen, rs,
                   syncStores, syncLocals, swept>>

\* r.finalizer.RemoveFinalizer: drops the finalizer from re and updates the
\* local instance; a not-found of that update is ignored.
ReqRemoveFinalizer(w) ==
    /\ ctrl = "requirement"
    /\ pc[w] = "removeFinalizer"
    /\ \E e \in UpdateErrs(lstore, reSeen[w]) :
        /\ Log(w, Op("local", "RemoveFinalizer", ReqKey, e))
        /\ lstore' = IF e = Nil THEN Stored([re[w] EXCEPT !.fin = FALSE]) ELSE lstore
        /\ re' = [re EXCEPT ![w].fin = FALSE]
        /\ reSeen' = [reSeen EXCEPT ![w] = IF e = Nil THEN lstore' ELSE @]
        /\ Return(w, ReqRemoveFinalizerResult(IgnoreNotFound(e)))
    /\ ReqNotify
    /\ UNCHANGED <<ctrl, healthy, req, rstore, rsecret, lsecret, reRemote, rrSeen, rs,
                   syncStores, syncLocals, swept>>

\* r.remote.Delete: the remote store erases the instance at once or marks it
\* for deletion and erases it later.
ReqRemoteDelete(w) ==
    /\ ctrl = "requirement"
    /\ pc[w] = "remoteDelete"
    /\ \E e \in DeleteErrs(rstore.exists) :
        /\ Log(w, Op("remote", "Delete", ReqKey, e))
        /\ IF e = Nil
           THEN rstore' \in {NoObj, [rstore EXCEPT !.deleted = TRUE]}
           ELSE rstore' = rstore
        /\ Return(w, ReqRemoteDeleteResult(e))
    /\ UNCHANGED <<ctrl, healthy, queue, req, lstore, rsecret, lsecret, reqLocals,
                   syncStores, syncLocals, swept>>

\* r.finalizer.AddFinalizer, then the in-memory update of reRemote.
ReqAddFinalizer(w) ==
    /\ ctrl = "requirement"
    /\ pc[w] = "addFinalizer"
    /\ \E e \in UpdateErrs(lstore, reSeen[w]) :
        /\ Log(w, Op("local", "AddFinalizer", ReqKey, e))
        /\ lstore' = IF e = Nil THEN [re[w] EXCEPT !.fin = TRUE] ELSE lstore
        /\ re' = [re EXCEPT ![w].fin = TRUE]
        /\ reSeen' = [reSeen EXCEPT ![w] = IF e = Nil THEN lstore' ELSE @]
        /\ IF ReqAddFinalizerFailed(e)
           THEN /\ Return(w, Result(shortWait, Wrap(e, local \o errAddFinalizer)))
                /\ UNCHANGED reRemote
           ELSE /\ reRemote' = [reRemote EXCEPT ![w] = EqualizeRequirementSpec(re'[w], @)]
                /\ Goto(w, ReqAfterAddFinalizer(reRemote[w]))
    /\ ReqNotify
    /\ UNCHANGED <<ctrl, healthy, req, rstore, rsecret, lsecret, rrSeen, rs,
                   syncStores, syncLocals, swept>>

ReqRemoteCreate(w) ==
    /\ ctrl = "requirement"
    /\ pc[w] = "remoteCreate"
    /\ \E e \in CreateErrs(rstore.exists) :
        /\ Log(w, Op("remote", "Create", ReqKey, e))
        /\ IF e # Nil
           THEN /\ Return(w, Result(shortWait, Wrap(e, remote \o errCreateRequirement)))
                /\ UNCHANGED <<rstore, reRemote, rrSeen>>
           ELSE /\ rstore' = [reRemote[w] EXCEPT !.exists = TRUE]
                /\ reRemote' = [reRemote EXCEPT ![w] = rstore']
                /\ rrSeen' = [rrSeen EXCEPT ![w] = rstore']
                /\ Goto(w, "remoteUpdate")
    /\ UNCHANGED <<ctrl, healthy, queue, req, lstore, rsecret, lsecret, re, reSeen, rs,
                   syncStores, syncLocals, swept>>

ReqRemoteUpdate(w) ==
    /\ ctrl = "requirement"
    /\ pc[w] = "remoteUpdate"
    /\ \E e \in UpdateErrs(rstore, rrSeen[w]) :
        /\ Log(w, Op("remote", "Update", ReqKey, e))
        /\ IF ReqUpdateFailed(e)
           THEN /\ Return(w, Result(shortWait, Wrap(e, remote \o errUpdateRequirement)))
                /\ UNCHANGED <<rstore, reRemote, rrSeen>>
           ELSE /\ rstore' = [rstore EXCEPT !.spec = reRemote[w].spec, !.ref = reRemote[w].ref]
                /\ reRemote' = [reRemote EXCEPT ![w] = rstore']
                /\ rrSeen' = [rrSeen EXCEPT ![w] = rstore']
                /\ Goto(w, "localUpdate")
    /\ UNCHANGED <<ctrl, healthy, queue, req, lstore, rsecret, lsecret, re, reSeen, rs,
                   syncStores, syncLocals, swept>>

\* r.local.Update, then resource.PropagateStatus, which may fail to convert.
ReqLocalUpdate(w) ==
    /\ ctrl = "requirement"
    /\ pc[w] = "localUpdate"
    /\ \E e \in UpdateErrs(lstore, reSeen[w]) :
        /\ Log(w, Op("local", "Update", ReqKey, e))
        /\ IF ReqUpdateFailed(e)
           THEN /\ Return(w, Result(shortWait, Wrap(e, local \o errUpdateRequirement)))
                /\ UNCHANGED re
           ELSE \E conv \in {Nil} \cup Faults :
                  IF conv # Nil
                  THEN /\ Return(w, Result(shortWait, Wrap(conv, errConvertStatusToLocal)))
                       /\ UNCHANGED re
                  ELSE /\ re' = [re EXCEPT ![w] = PropagateStatus(reRemote[w], @)]
                       /\ Goto(w, "localStatusUpdate")
    /\ UNCHANGED <<ctrl, healthy, queue, req, reqStores, reRemote, reSeen, rrSeen, rs,
                   syncStores, syncLocals, swept>>

ReqLocalStatusUpdate(w) ==
    /\ ctrl = "requirement"
    /\ pc[w] = "localStatusUpdate"
    /\ \E e \in UpdateErrs(lstore, reSeen[w]) :
        /\ Log(w, Op("local", "StatusUpdate", ReqKey, e))
        /\ lstore' = IF ReqUpdateFailed(e) THEN lstore ELSE [lstore EXCEPT !.status = re[w].status]
        /\ reSeen' = [reSeen EXCEPT ![w] = IF ReqUpdateFailed(e) THEN @ ELSE lstore']
        /\ IF ReqUpdateFailed(e)
           THEN Return(w, Result(shortWait, Wrap(e, local \o errUpdateRequirement)))
           ELSE IF ~re[w].ref
                THEN Return(w, ReqNoSecretResult)
                ELSE Goto(w, "remoteGetSecret")
    /\ ReqNotify
    /\ UNCHANGED <<ctrl, healthy, req, rstore, rsecret, lsecret, re, reRemote, rrSeen, rs,
                   syncStores, syncLocals, swept>>

\* rnn: the remote secret is looked up under the name of the reference the
\* remote instance declares and the namespace of the remote instance.
SecretKey(o) ==
    [name |-> GetWriteConnectionSecretToReference(o), namespace |-> GetNamespace(o)]
\* The store holds a secret under the key.
HoldsSecret(s, key) == s.exists /\ s.name = key.name /\ s.namespace = key.namespace

ReqRemoteGetSecret(w) ==
    /\ ctrl = "requirement"
    /\ pc[w] = "remoteGetSecret"
    /\ \E e \in GetErrs(HoldsSecret(rsecret, SecretKey(reRemote[w]))) :
        /\ Log(w, Op("remote", "Get", "secret", e))
        /\ IF e # Nil
           THEN /\ Return(w, ReqSecretGetResult(e))
                /\ UNCHANGED rs
           ELSE /\ rs' = [rs EXCEPT ![w] = rsecret]
                /\ Goto(w, "localApplySecret")
    /\ UNCHANGED <<ctrl, healthy, queue, req, reqStores, re, reRemote, reSeen, rrSeen,
                   syncStores, syncLocals, swept>>

ReqLocalApplySecret(w) ==
    /\ ctrl = "requirement"
    /\ pc[w] = "localApplySecret"
    /\ \E e \in {Nil} \cup Faults :
        /\ Log(w, Op("local", "Apply", "secret", e))
        /\ lsecret' = IF e = Nil THEN SecretCopy(re[w], rs[w]) ELSE lsecret
        /\ Return(w, ReqApplySecretResult(e))
    /\ UNCHANGED <<ctrl, healthy, queue, req, lstore, rstore, rsecret, reqLocals,
                   syncStores, syncLocals, swept>>

----------------------------------------------------------------------------
\* Cluster syncer: the decisions of Reconcile and Cleanup.

NewErr(m) == [msg |-> <<m>>, cause |-> m]
NoListed == [local |-> {}, remote |-> {}]
Present(store) == {n \in Names : store[n] # 0}

\* Variant: the gate does not look at the Established condition.
SyncGetCRDResultAnyStatus(e, c) ==
    IF e # Nil
    THEN Result(shortWait, Wrap(e, "cannot get customresourcedefinitions in local cluster"))
    ELSE NoResult

SyncGetCRDResult(e, c) ==
    IF e # Nil
    THEN Result(shortWait, Wrap(e, "cannot get customresourcedefinitions in local cluster"))
    ELSE IF c # "established"
         THEN Result(shortWait, NewErr("crd in local cluster is not established yet"))
         ELSE NoResult

\* What Reconcile returns once Cleanup returned err.
SyncCleanupResult(err) == Result(shortWait, WrapErr(err, "cannot clean up local cluster"))

\* The removal set after the remote list: the local names without the remote ones.
\* Variant: the remote names are not taken out of the removal set.
RemovalAfterRemoteListKeepAll(removal, remoteNames) == removal

\* Variant: the names the remote list holds stay in the removal set, the
\* others are taken out.
RemovalAfterRemoteListCommon(removal, remoteNames) == removal \cap remoteNames

RemovalAfterRemoteList(removal, remoteNames) == removal \ remoteNames

\* The test of the error a Delete of Cleanup returns.
\* Variant: a not-found is a failure like the others.
SyncDeleteFailedAny(e) == e # Nil

SyncDeleteFailed(e) == IgnoreNotFound(e) # Nil

\* A store of the family changed: the passes of Cleanup under way in other
\* workers no longer run against unchanged stores.
Touched(w) == [v \in Workers |->
                 IF v # w /\ sweep[v] \in {"first", "again"} THEN "dirty" ELSE sweep[v]]

----------------------------------------------------------------------------
\* Cluster syncer: the invocation, one action per store call.

SyncStart(w, n) ==
    /\ ctrl = "syncer"
    /\ FirstFree(w)
    /\ n \in queue
    /\ \A v \in Workers : pc[v] = "idle" \/ req[v] # n
    /\ queue' = queue \ {n}
    /\ pc' = [pc EXCEPT ![w] = "getCRD"]
    /\ req' = [req EXCEPT ![w] = n]
    /\ UNCHANGED <<ctrl, healthy, ops, result, reqStores, reqLocals,
                   syncStores, syncLocals, swept>>

SyncGetCRD(w) ==
    /\ ctrl = "syncer"
    /\ pc[w] = "getCRD"
    /\ \E e \in GetErrs(crd # "absent") :
        /\ Log(w, Op("local", "Get", CrdKey, e))
        /\ IF SyncGetCRDResult(e, crd) # NoResult
           THEN Return(w, SyncGetCRDResult(e, crd))
           ELSE Goto(w, "remoteGet")
    /\ UNCHANGED <<ctrl, healthy, queue, req, reqStores, reqLocals,
                   syncStores, syncLocals, swept>>

\* Variant: a remote instance that is not found is no failure.
SyncRemoteGetFailedButNotFound(e) == IgnoreNotFound(e) # Nil

\* The remote Get failed: any error, not-found included.
SyncRemoteGetFailed(e) == e # Nil

SyncRemoteGet(w) ==
    /\ ctrl = "syncer"
    /\ pc[w] = "remoteGet"
    /\ \E e \in GetErrs(sremote[req[w]] # 0) :
        /\ Log(w, Op("remote", "Get", req[w], e))
        /\ IF SyncRemoteGetFailed(e)
           THEN /\ Return(w, Result(shortWait, Wrap(e, "cannot get instance in remote cluster")))
                /\ UNCHANGED instance
           ELSE /\ instance' = [instance EXCEPT ![w] = sremote[req[w]]]
                /\ Goto(w, "localGet")
    /\ UNCHANGED <<ctrl, healthy, queue, req, reqStores, reqLocals,
                   syncStores, listed, removalList, sweep, swept>>

\* r.local.Get of the existing copy, then resource.EqualizeMetadata, which
\* gives instance the system metadata of the existing copy.
SyncLocalGet(w) ==
    /\ ctrl = "syncer"
    /\ pc[w] = "localGet"
    /\ \E e \in GetErrs(slocal[req[w]] # 0) :
        /\ Log(w, Op("local", "Get", req[w], e))
        /\ IF IgnoreNotFound(e) # Nil
           THEN Return(w, Result(shortWait, Wrap(e, "cannot get instance in local cluster")))
           ELSE Goto(w, "apply")
    /\ UNCHANGED <<ctrl, healthy, queue, req, reqStores, reqLocals,
                   syncStores, syncLocals, swept>>

SyncApply(w) ==
    /\ ctrl = "syncer"
    /\ pc[w] = "apply"
    /\ \E e \in {Nil} \cup Faults :
        /\ Log(w, Op("local", "Apply", req[w], e))
        /\ IF e # Nil
           THEN /\ Return(w, Result(shortWait, Wrap(e, "cannot apply instance in local cluster")))
                /\ UNCHANGED <<slocal, sweep, swept>>
           ELSE /\ slocal' = [slocal EXCEPT ![req[w]] = instance[w]]
                /\ sweep' = IF slocal' # slocal THEN Touched(w) ELSE sweep
                /\ swept' = (swept /\ slocal' = slocal)
                /\ Goto(w, "listLocal")
    /\ UNCHANGED <<ctrl, healthy, queue, req, reqStores, reqLocals,
                   crd, sremote, instance, listed, removalList>>

\* Cleanup: the local list seeds the removal set.
SyncListLocal(w) ==
    /\ ctrl = "syncer"
    /\ pc[w] = "listLocal"
    /\ \E e \in ListErrs :
        /\ Log(w, Op("local", "List", "*", e))
        /\ IF e # Nil
           THEN /\ Return(w, SyncCleanupResult(Wrap(e, "cannot list instances in local cluster")))
                /\ UNCHANGED <<listed, removalList, sweep>>
           ELSE /\ removalList' = [removalList EXCEPT ![w] = Present(slocal)]
                /\ listed' = [listed EXCEPT ![w].local = Present(slocal)]
                /\ sweep' = [sweep EXCEPT ![w] = IF swept THEN "again" ELSE "first"]
                /\ Goto(w, "listRemote")
    /\ UNCHANGED <<ctrl, healthy, queue, req, reqStores, reqLocals,
                   syncStores, instance, swept>>

\* Cleanup: the remote list takes its names out of the removal set; with
\* nothing left to remove Cleanup and Reconcile return.
SyncListRemote(w) ==
    /\ ctrl = "syncer"
    /\ pc[w] = "listRemote"
    /\ \E e \in ListErrs :
        /\ Log(w, Op("remote", "List", "*", e))
        /\ IF e # Nil
           THEN /\ Return(w, SyncCleanupResult(Wrap(e, "cannot list instances in remote cluster")))
                /\ UNCHANGED <<listed, removalList, swept>>
           ELSE /\ removalList' = [removalList EXCEPT
                                     ![w] = RemovalAfterRemoteList(@, Present(sremote))]
                /\ listed' = [listed EXCEPT ![w].remote = Present(sremote)]
                /\ IF removalList'[w] = {}
                   THEN /\ Return(w, SyncCleanupResult(NilErr))
                        /\ swept' = (sweep[w] # "dirty")
                   ELSE /\ Goto(w, "delete")
                        /\ UNCHANGED swept
    /\ UNCHANGED <<ctrl, healthy, queue, req, reqStores, reqLocals,
                   syncStores, instance, sweep>>

\* Cleanup: one pass of the loop over the removal set, in the order the map
\* yields the names.
SyncDelete(w) ==
    /\ ctrl = "syncer"
    /\ pc[w] = "delete"
    /\ \E remove \in removalList[w] :
       \E e \in DeleteErrs(slocal[remove] # 0) :
        /\ Log(w, Op("local", "Delete", remove, e))
        /\ IF SyncDeleteFailed(e)
           THEN /\ Return(w, SyncCleanupResult(Wrap(e, "cannot delete instance in local cluster")))
                /\ UNCHANGED <<slocal, removalList, sweep, swept>>
           ELSE /\ slocal' = [slocal EXCEPT ![remove] = 0]
                /\ removalList' = [removalList EXCEPT ![w] = @ \ {remove}]
                /\ sweep' = IF slocal' # slocal THEN Touched(w) ELSE sweep
                /\ IF removalList'[w] = {}
                   THEN /\ Return(w, SyncCleanupResult(NilErr))
                        /\ swept' = (sweep[w] # "dirty")
                   ELSE /\ Goto(w, "delete")
                        /\ swept' = (swept /\ slocal' = slocal)
    /\ UNCHANGED <<ctrl, healthy, queue, req, reqStores, reqLocals,
                   crd, sremote, instance, listed>>

\* A second writer: another agent process, the one a restart has not stopped
\* yet, starts an invocation of the identity while one is under way.
ReqStartSecond(w) ==
    /\ ctrl = "requirement"
    /\ FirstFree(w)
    /\ \E v \in Workers : pc[v] \notin {"idle", "done"}
    /\ pc' = [pc EXCEPT ![w] = "localGet"]
    /\ req' = [req EXCEPT ![w] = ReqKey]
    /\ UNCHANGED <<ctrl, healthy, queue, ops, result, reqStores, reqLocals,
                   syncStores, syncLocals, swept>>

----------------------------------------------------------------------------
\* The scheduler takes the returned directive: the worker is free again and
\* the identity is queued again after an error or a requeue directive.
Finish(w) ==
    /\ pc[w] = "done"
    /\ queue' = IF Requeues(result[w]) THEN queue \cup {req[w]} ELSE queue
    /\ pc' = [pc EXCEPT ![w] = "idle"]
    /\ req' = [req EXCEPT ![w] = NoKey]
    /\ ops' = [ops EXCEPT ![w] = <<>>]
    /\ result' = [result EXCEPT ![w] = NoResult]
    /\ re' = [re EXCEPT ![w] = NoObj]
    /\ reRemote' = [reRemote EXCEPT ![w] = NoObj]
    /\ reSeen' = [reSeen EXCEPT ![w] = NoObj]
    /\ rrSeen' = [rrSeen EXCEPT ![w] = NoObj]
    /\ rs' = [rs EXCEPT ![w] = NoSecret]
    /\ instance' = [instance EXCEPT ![w] = 0]
    /\ listed' = [listed EXCEPT ![w] = NoListed]
    /\ removalList' = [removalList EXCEPT ![w] = {}]
    /\ sweep' = [sweep EXCEPT ![w] = "none"]
    /\ UNCHANGED <<ctrl, healthy, reqStores, syncStores, swept>>

----------------------------------------------------------------------------
\* The environment: users, the remote controllers and the stores themselves.

\* The stores stop failing.
EnvHeal ==
    /\ ~healthy
    /\ healthy' = TRUE
    /\ UNCHANGED <<ctrl, queue, pc, req, ops, result, reqStores, reqLocals,
                   syncStores, syncLocals, swept>>

\* A user creates the local requirement, with or without a connection secret reference.
EnvCreateLocal ==
    /\ ctrl = "requirement"
    /\ ~lstore.exists
    /\ \E s \in 1..MaxSpec, r \in BOOLEAN :
         lstore' = [exists |-> TRUE, deleted |-> FALSE, fin |-> FALSE,
                    spec |-> s, status |-> 0, ref |-> r]
    /\ ReqNotify
    /\ UNCHANGED <<ctrl, healthy, pc, req, ops, result, rstore, rsecret, lsecret,
                   reqLocals, syncStores, syncLocals, swept>>

\* A user changes the desired state of the local requirement.
EnvEditSpec ==
    /\ ctrl = "requirement"
    /\ lstore.exists /\ ~lstore.deleted
    /\ \E s \in 1..MaxSpec :
         /\ s # lstore.spec
         /\ lstore' = [lstore EXCEPT !.spec = s]
    /\ ReqNotify
    /\ UNCHANGED <<ctrl, healthy, pc, req, ops, result, rstore, rsecret, lsecret,
                   reqLocals, syncStores, syncLocals, swept>>

\* A user deletes the local requirement: the store sets the deletion
\* timestamp and keeps the object while it carries the finalizer.
EnvDeleteLocal ==
    /\ ctrl = "requirement"
    /\ lstore.exists /\ ~lstore.deleted
    /\ lstore' = Stored([lstore EXCEPT !.deleted = TRUE])
    /\ ReqNotify
    /\ UNCHANGED <<ctrl, healthy, pc, req, ops, result, rstore, rsecret, lsecret,
                   reqLocals, syncStores, syncLocals, swept>>

\* The remote store erases an instance that was marked for deletion.
EnvRemoteErase ==
    /\ ctrl = "requirement"
    /\ rstore.exists /\ rstore.deleted
    /\ rstore' = NoObj
    /\ UNCHANGED <<ctrl, healthy, queue, pc, req, ops, result, lstore, rsecret, lsecret,
                   reqLocals, syncStores, syncLocals, swept>>

\* The remote controller reports a status on the remote instance.
EnvRemoteStatus ==
    /\ ctrl = "requirement"
    /\ rstore.exists /\ ~rstore.deleted
    /\ \E s \in 1..MaxStatus :
         /\ s # rstore.status
         /\ rstore' = [rstore EXCEPT !.status = s]
    /\ UNCHANGED <<ctrl, healthy, queue, pc, req, ops, result, lstore, rsecret, lsecret,
                   reqLocals, syncStores, syncLocals, swept>>

\* The remote controller publishes the connection secret, which it owns.
EnvRemoteSecret ==
    /\ ctrl = "requirement"
    /\ rstore.exists /\ rstore.ref /\ ~rsecret.exists
    /\ \E n \in SecretNames, ns \in Namespaces, d \in 1..MaxData :
         rsecret' = [exists |-> TRUE, name |-> n, namespace |-> ns, data |-> d,
                     owner |-> {[ref |-> RemoteOwner, controller |-> TRUE]}]
    /\ UNCHANGED <<ctrl, healthy, queue, pc, req, ops, result, lstore, rstore, lsecret,
                   reqLocals, syncStores, syncLocals, swept>>

\* The schema definition is installed in the local store, then established.
EnvEstablish ==
    /\ ctrl = "syncer"
    /\ crd # "established"
    /\ crd' = IF crd = "absent" THEN "pending" ELSE "established"
    /\ UNCHANGED <<ctrl, healthy, queue, pc, req, ops, result, reqStores, reqLocals,
                   slocal, sremote, syncLocals, swept>>

\* An instance of the family is created or changed in the remote store.
EnvRemoteApply(n) ==
    /\ ctrl = "syncer"
    /\ \E s \in 1..MaxGen :
         /\ s # sremote[n]
         /\ sremote' = [sremote EXCEPT ![n] = s]
    /\ queue' = queue \cup {n}
    /\ sweep' = Touched(0)
    /\ swept' = FALSE
    /\ UNCHANGED <<ctrl, healthy, pc, req, ops, result, reqStores, reqLocals,
                   crd, slocal, instance, listed, removalList>>

\* An instance of the family is deleted from the remote store.
EnvRemoteDelete(n) ==
    /\ ctrl = "syncer"
    /\ sremote[n] # 0
    /\ sremote' = [sremote EXCEPT ![n] = 0]
    /\ queue' = queue \cup {n}
    /\ sweep' = Touched(0)
    /\ swept' = FALSE
    /\ UNCHANGED <<ctrl, healthy, pc, req, ops, result, reqStores, reqLocals,
                   crd, slocal, instance, listed, removalList>>

----------------------------------------------------------------------------
Init ==
    /\ ctrl \in {"requirement", "syncer"}
    /\ healthy \in BOOLEAN
    /\ queue = {}
    /\ pc = [w \in Workers |-> "idle"]
    /\ req = [w \in Workers |-> NoKey]
    /\ ops = [w \in Workers |-> <<>>]
    /\ result = [w \in Workers |-> NoResult]
    /\ lstore = NoObj
    /\ rstore \in {NoObj} \cup
                  (IF ctrl = "requirement"
                   THEN {[exists |-> TRUE, deleted |-> FALSE, fin |-> FALSE,
                          spec |-> MaxSpec, status |-> 0, ref |-> FALSE]}
                   ELSE {})
    /\ rsecret = NoSecret
    /\ lsecret = NoSecret
    /\ re = [w \in Workers |-> NoObj]
    /\ reRemote = [w \in Workers |-> NoObj]
    /\ reSeen = [w \in Workers |-> NoObj]
    /\ rrSeen = [w \in Workers |-> NoObj]
    /\ rs = [w \in Workers |-> NoSecret]
    /\ crd = "absent"
    /\ slocal = [n \in Names |-> 0]
    /\ sremote = [n \in Names |-> 0]
    /\ instance = [w \in Workers |-> 0]
    /\ listed = [w \in Workers |-> NoListed]
    /\ removalList = [w \in Workers |-> {}]
    /\ sweep = [w \in Workers |-> "none"]
    /\ swept = FALSE

ReqStep(w) ==
    \/ ReqStart(w)
    \/ ReqLocalGet(w)
    \/ ReqRemoteGet(w)
    \/ ReqRemoveFinalizer(w)
    \/ ReqRemoteDelete(w)
    \/ ReqAddFinalizer(w)
    \/ ReqRemoteCreate(w)
    \/ ReqRemoteUpdate(w)
    \/ ReqLocalUpdate(w)
    \/ ReqLocalStatusUpdate(w)
    \/ ReqRemoteGetSecret(w)
    \/ ReqLocalApplySecret(w)

SyncStep(w) ==
    \/ \E n \in Names : SyncStart(w, n)
    \/ SyncGetCRD(w)
    \/ SyncRemoteGet(w)
    \/ SyncLocalGet(w)
    \/ SyncApply(w)
    \/ SyncListLocal(w)
    \/ SyncListRemote(w)
    \/ SyncDelete(w)

EnvReq ==
    \/ EnvCreateLocal
    \/ EnvEditSpec
    \/ EnvDeleteLocal
    \/ EnvRemoteErase
    \/ EnvRemoteStatus
    \/ EnvRemoteSecret

EnvSync ==
    \/ EnvEstablish
    \/ \E n \in Names : EnvRemoteApply(n)
    \/ \E n \in Names : EnvRemoteDelete(n)

\* Both reconcilers.
Next ==
    \/ \E w \in Workers : ReqStep(w)
    \/ \E w \in Workers : SyncStep(w)
    \/ \E w \in Workers : Finish(w)
    \/ EnvHeal
    \/ EnvReq
    \/ EnvSync

Spec == Init /\ [][Next]_vars

\* The requirement reconciler alone.
InitReq == Init /\ ctrl = "requirement"
NextReq ==
    \/ \E w \in Workers : ReqStep(w)
    \/ \E w \in Workers : Finish(w)
    \/ EnvHeal
    \/ EnvReq

SpecReq == InitReq /\ [][NextReq]_vars

\* The scheduler runs every pending invocation and honours every directive,
\* the stores stop failing and the remote store erases what it marked.
FairReq ==
    /\ SpecReq
    /\ \A w \in Workers : WF_vars(ReqStep(w)) /\ WF_vars(Finish(w))
    /\ WF_vars(EnvHeal)
    /\ WF_vars(EnvRemoteErase)

\* The requirement reconciler with a second writer, on stores that do not
\* fail and an instance that is not deleted.
InitReqTwo == InitReq /\ healthy
NextReqTwo ==
    \/ \E w \in Workers :
          \/ ReqStart(w)
          \/ ReqStartSecond(w)
          \/ ReqLocalGet(w)
          \/ ReqRemoteGet(w)
          \/ ReqAddFinalizer(w)
          \/ ReqRemoteCreate(w)
          \/ ReqRemoteUpdate(w)
          \/ ReqLocalUpdate(w)
          \/ ReqLocalStatusUpdate(w)
          \/ ReqRemoteGetSecret(w)
          \/ Finish(w)
    \/ EnvCreateLocal
    \/ EnvEditSpec
    \/ EnvRemoteStatus

SpecReqTwo == InitReqTwo /\ [][NextReqTwo]_vars

\* Both reconcilers with one invocation at a time and no change from outside
\* while it runs.
Quiet == \A w \in Workers : pc[w] = "idle"
NextQuiet ==
    \/ \E w \in Workers :
          /\ \A v \in Workers \ {w} : pc[v] = "idle"
          /\ ReqStep(w) \/ SyncStep(w) \/ Finish(w)
    \/ Quiet /\ (EnvHeal \/ EnvReq \/ EnvSync)

SpecQuiet == Init /\ [][NextQuiet]_vars

\* The cluster syncer alone.
InitSync == Init /\ ctrl = "syncer"
NextSync ==
    \/ \E w \in Workers : SyncStep(w)
    \/ \E w \in Workers : Finish(w)
    \/ EnvHeal
    \/ EnvSync

SpecSync == InitSync /\ [][NextSync]_vars

\* The cluster syncer with stores that never fail, a schema that gets
\* established and a scheduler that runs every pending invocation.
InitSyncHealthy == InitSync /\ healthy
NextSyncHealthy ==
    \/ \E w \in Workers : SyncStep(w)
    \/ \E w \in Workers : Finish(w)
    \/ EnvSync

FairSync ==
    /\ InitSyncHealthy /\ [][NextSyncHealthy]_vars
    /\ \A w \in Workers : WF_vars(SyncStep(w)) /\ WF_vars(Finish(w))
    /\ WF_vars(EnvEstablish)

----------------------------------------------------------------------------
\* What an invocation did, read off the store calls it issued.
Done(w) == pc[w] = "done"
Calls(w) == {ops[w][i] : i \in DOMAIN ops[w]}
Issued(w, side, verb) == {i \in DOMAIN ops[w] : ops[w][i].side = side /\ ops[w][i].verb = verb}
RemoteWrites(w) == {o \in Calls(w) : o.side = "remote" /\ IsWrite(o)}
LocalWrites(w) == {o \in Calls(w) : o.side = "local" /\ IsWrite(o)}

\* The invocation of the requirement reconciler fetched the remote instance
\* and the fetch returned e.
RemoteFetch(w, e) == Op("remote", "Get", ReqKey, e) \in Calls(w)
\* The invocation read a deletion timestamp on the local instance.
SawDeleted(w) == \E i \in Issued(w, "local", "Get") : ops[w][i].err = Nil /\ WasDeleted(re[w])
\* The invocation removed the finalizer from the local instance.
RemovedFinalizer(w) == Op("local", "RemoveFinalizer", ReqKey, Nil) \in Calls(w)
NoRequeue(r) == r.err = NilErr /\ ~r.Requeue /\ r.RequeueAfter = 0

----------------------------------------------------------------------------
\* C1 as stated: an invocation removes the finalizer if and only if its
\* remote fetch reported not-found.
C1_RemovedIffAbsent ==
    \A w \in Workers :
        Done(w) /\ req[w] = ReqKey => (RemovedFinalizer(w) <=> RemoteFetch(w, NotFound))

\* C1 amended: an invocation removes the finalizer if and only if it read a
\* deletion timestamp on the local instance, its remote fetch reported
\* not-found and it returned no error.
C1_RemovedIffDeletedAndAbsent ==
    \A w \in Workers :
        Done(w) /\ req[w] = ReqKey =>
            (RemovedFinalizer(w) <=>
                SawDeleted(w) /\ RemoteFetch(w, NotFound) /\ result[w].err = NilErr)

C1_Witness ==
    \E w \in Workers :
        /\ Done(w) /\ RemovedFinalizer(w) /\ RemoteFetch(w, NotFound)
        /\ ~lstore.exists

\* C2: RemoveFinalizer is called only right after a remote fetch of the same
\* invocation that returned not-found; an invocation whose remote fetch
\* returned the instance or another error, or that issued the remote Delete,
\* calls no RemoveFinalizer.
C2_NoSkipAhead ==
    \A w \in Workers :
        /\ \A i \in Issued(w, "local", "RemoveFinalizer") :
              i > 1 /\ ops[w][i - 1] = Op("remote", "Get", ReqKey, NotFound)
        /\ (\/ RemoteFetch(w, Nil)
            \/ RemoteFetch(w, Boom)
            \/ Issued(w, "remote", "Delete") # {})
           => Issued(w, "local", "RemoveFinalizer") = {}

C2_Witness ==
    \E w \in Workers :
        /\ Done(w) /\ RemovedFinalizer(w)
        /\ ~rstore.exists /\ ~lstore.exists

\* C5: once the local instance carries a deletion timestamp the protocol
\* reaches Finalized: no remote instance and no finalizer on the local one.
C5_DeletionFinalizes ==
    (lstore.exists /\ lstore.deleted) ~> (~rstore.exists /\ ~lstore.fin)

C5_Witness ==
    \E w \in Workers :
        /\ Done(w) /\ RemovedFinalizer(w) /\ healthy
        /\ ~rstore.exists /\ ~lstore.fin

\* C6 as stated: with a deletion timestamp and the finalizer on the local
\* instance and a remote fetch that returned not-found, the invocation
\* removes the finalizer, writes nothing to the remote store and returns no
\* error and no requeue.
C6_DeletionRaceAlways ==
    \A w \in Workers :
        Done(w) /\ SawDeleted(w) /\ RemoteFetch(w, NotFound) =>
            RemovedFinalizer(w) /\ RemoteWrites(w) = {} /\ NoRequeue(result[w])

\* C6 amended: the same, for an invocation whose RemoveFinalizer did not
\* fail; one whose RemoveFinalizer failed returns that error with the short
\* wait, and no invocation of this case writes to the remote store.
C6_DeletionRace ==
    \A w \in Workers :
        Done(w) /\ SawDeleted(w) /\ RemoteFetch(w, NotFound) =>
            /\ RemoteWrites(w) = {}
            /\ Len(ops[w]) = 3 /\ ops[w][3].verb = "RemoveFinalizer"
            /\ IF ops[w][3].err = Nil
               THEN RemovedFinalizer(w) /\ NoRequeue(result[w]) /\ ~lstore.fin
               ELSE /\ result[w].RequeueAfter = shortWait
                    /\ result[w].err = Wrap(ops[w][3].err, local \o errRemoveFinalizer)

C6_Witness ==
    \E w \in Workers :
        /\ Done(w) /\ SawDeleted(w) /\ RemoteFetch(w, NotFound)
        /\ RemovedFinalizer(w) /\ NoRequeue(result[w])

\* C7: with a deletion timestamp on the local instance and a remote fetch
\* that returned the instance, the invocation issues exactly one remote
\* Delete and no other write, leaves the finalizer on the local instance,
\* and when the Delete succeeds returns requeue-after the tiny wait with no
\* error.
C7_RemoteDeleteThenTinyWait ==
    \A w \in Workers :
        Done(w) /\ SawDeleted(w) /\ RemoteFetch(w, Nil) =>
            /\ Cardinality(Issued(w, "remote", "Delete")) = 1
            /\ Cardinality(RemoteWrites(w)) = 1
            /\ LocalWrites(w) = {}
            /\ lstore.exists /\ lstore.fin
            /\ \A i \in Issued(w, "remote", "Delete") :
                  ops[w][i].err = Nil =>
                      /\ result[w] = Result(tinyWait, NilErr)
                      /\ tinyWait = 5 /\ tinyWait < shortWait /\ tinyWait < longWait

C7_Witness ==
    \E w \in Workers :
        /\ Done(w) /\ SawDeleted(w) /\ RemoteFetch(w, Nil)
        /\ Op("remote", "Delete", ReqKey, Nil) \in Calls(w)
        /\ result[w].RequeueAfter = tinyWait

----------------------------------------------------------------------------
\* The names an invocation of the syncer issued a local Delete for.
DeletesIssued(w) == {ops[w][i].key : i \in Issued(w, "local", "Delete")}
\* The pass of Cleanup of the invocation read both lists and met no error.
SweepCompleted(w) ==
    /\ Done(w) /\ req[w] \in Names
    /\ Issued(w, "remote", "List") # {}
    /\ result[w].err = NilErr

\* C3: a sweep that meets no store error issues a local Delete for exactly
\* the names of the local list that are not in the remote list, once each,
\* and a sweep that runs after a completed one, with no change to either
\* store in between, issues no Delete.
C3_SweepDeletesOrphans ==
    \A w \in Workers :
        SweepCompleted(w) =>
            /\ DeletesIssued(w) = listed[w].local \ listed[w].remote
            /\ DeletesIssued(w) \cap (listed[w].local \cap listed[w].remote) = {}
            /\ Cardinality(Issued(w, "local", "Delete")) = Cardinality(DeletesIssued(w))
            /\ sweep[w] = "again" => DeletesIssued(w) = {}

C3_Witness ==
    \E w, v \in Workers :
        /\ SweepCompleted(w)
        /\ listed[w].local \ listed[w].remote # {}
        /\ listed[w].local \cap listed[w].remote # {}
        /\ DeletesIssued(w) = listed[w].local \ listed[w].remote
        /\ SweepCompleted(v) /\ sweep[v] = "again" /\ listed[v].local # {}

\* C4, in the case the claim names: a local instance whose remote
\* counterpart was the last remote instance of the family is eventually
\* removed from the local store, unless a remote instance appears again.
C4_OrphansRemoved ==
    \A n \in Names :
        (slocal[n] # 0 /\ Present(sremote) = {}) ~> (slocal[n] = 0 \/ Present(sremote) # {})

\* C8: an invocation of the syncer that could not fetch the schema
\* definition, or fetched it not established, issued that one local Get and
\* nothing else, and returned an error with requeue-after the short wait.
C8_SchemaNotReady ==
    \A w \in Workers :
        Done(w) /\ req[w] \in Names /\ (crd # "established" \/ ops[w][1].err # Nil) =>
            /\ ops[w] = <<Op("local", "Get", CrdKey, ops[w][1].err)>>
            /\ result[w].err # NilErr
            /\ result[w].RequeueAfter = shortWait /\ ~result[w].Requeue
            /\ shortWait = 30

C8_Witness ==
    \E w \in Workers :
        /\ Done(w) /\ req[w] \in Names
        /\ crd = "pending" /\ ops[w][1].err = Nil
        /\ sremote[req[w]] # 0

\* The invocation ran to its end and every store call of it succeeded.
FullSuccess(w) ==
    /\ Done(w)
    /\ \A o \in Calls(w) : o.err = Nil
    /\ result[w].err = NilErr
    /\ \/ Issued(w, "remote", "List") # {}
       \/ Issued(w, "local", "StatusUpdate") # {}

\* C9: on full success Reconcile returns requeue-after the long wait.
C9_LongWaitOnSuccess ==
    \A w \in Workers : FullSuccess(w) => result[w] = Result(longWait, NilErr)

\* A not-found that Reconcile takes as an answer, not as a failure.
NormalNotFound(o) ==
    /\ o.err = NotFound
    /\ \/ o.verb = "Get" /\ o.key = ReqKey
       \/ o.verb = "Get" /\ o.key = "secret"
       \/ o.verb = "Get" /\ o.side = "local" /\ o.key \in Names
       \/ o.verb = "Delete"
       \/ o.verb = "RemoveFinalizer"
Failed(o) == o.err # Nil /\ ~NormalNotFound(o)

\* C10: in both reconcilers a store call that fails is the last call of its
\* invocation, and the invocation returns that error, wrapped, with
\* requeue-after the short wait.
C10_FirstFailureEnds ==
    \A w \in Workers :
        \A i \in DOMAIN ops[w] :
            Failed(ops[w][i]) =>
                /\ i = Len(ops[w])
                /\ Done(w)
                /\ result[w].err.cause = ops[w][i].err
                /\ result[w].err.msg # <<>>
                /\ result[w].RequeueAfter = shortWait /\ ~result[w].Requeue

C10_Witness ==
    \E w \in Workers :
        /\ Done(w) /\ Failed(ops[w][Len(ops[w])])
        /\ \/ req[w] = ReqKey /\ Len(ops[w]) > 3
           \/ req[w] \in Names /\ Len(ops[w]) > 6

----------------------------------------------------------------------------
\* C11: an invocation of the requirement reconciler whose local fetch reports
\* not-found returns no error and no requeue, and that fetch is the only
\* store call it issues: no call on the remote store, no write on the local
\* store, whatever the remote store holds.
LocalFetchNotFound(w) ==
    /\ req[w] = ReqKey
    /\ ops[w] # <<>>
    /\ ops[w][1] = Op("local", "Get", ReqKey, NotFound)

C11_GoneLocallyIsNoOp ==
    \A w \in Workers :
        LocalFetchNotFound(w) =>
            /\ Done(w)
            /\ NoRequeue(result[w])
            /\ ops[w] = <<Op("local", "Get", ReqKey, NotFound)>>

C11_Witness ==
    \E w \in Workers :
        /\ Done(w) /\ LocalFetchNotFound(w)
        /\ rstore.exists /\ ~lstore.exists

----------------------------------------------------------------------------
\* C12 as stated: in every reachable state a local instance carries the sync
\* finalizer while a corresponding remote instance exists.
C12_FinalizerWhileRemoteExists ==
    lstore.exists /\ rstore.exists => lstore.fin

\* The invocation issued its i-th call after AddFinalizer succeeded.
AfterAddFinalizer(w, i) ==
    \E j \in Issued(w, "local", "AddFinalizer") : j < i /\ ops[w][j].err = Nil
AddFinalizerFailed(w) ==
    \E j \in Issued(w, "local", "AddFinalizer") : ops[w][j].err # Nil

\* C12 amended: an invocation issues a remote Create or Update only after its
\* AddFinalizer succeeded, an invocation whose AddFinalizer failed issues no
\* remote write, and the finalizer is taken off a local instance (or the
\* instance erased with it) only while no remote instance exists.
C12_FinalizerGuardsRemote ==
    /\ [](\A w \in Workers :
            /\ \A i \in Issued(w, "remote", "Create") \cup Issued(w, "remote", "Update") :
                  AfterAddFinalizer(w, i)
            /\ AddFinalizerFailed(w) => RemoteWrites(w) = {})
    /\ [][lstore.fin /\ (~lstore'.exists \/ ~lstore'.fin) => ~rstore.exists]_vars

C12_Witness ==
    \E w \in Workers :
        /\ Done(w)
        /\ Op("remote", "Create", ReqKey, Nil) \in Calls(w)
        /\ Op("remote", "Update", ReqKey, Nil) \in Calls(w)
        /\ lstore.fin /\ rstore.exists

\* A failed AddFinalizer ended an invocation while a remote instance exists.
C12_WitnessFailed ==
    \E w \in Workers : Done(w) /\ AddFinalizerFailed(w) /\ rstore.exists

----------------------------------------------------------------------------
\* The invocation applied a secret copy to the local store.
AppliedSecret(w) == Op("local", "Apply", "secret", Nil) \in Calls(w)

\* C13: whenever the requirement reconciler applies a secret copy to the
\* local store, the copy is named as the reference the local instance
\* declares, lies in the namespace of the local instance, holds the data of
\* the remote secret it fetched and carries a controller owner reference to
\* the local instance, whatever remote secret was fetched.
C13_SecretCopyNaming ==
    \A w \in Workers :
        Done(w) /\ AppliedSecret(w) =>
            /\ re[w].ref /\ lsecret.name = LocalSecretName
            /\ lsecret.namespace = LocalNamespace
            /\ lsecret.data = rs[w].data
            /\ \E o \in lsecret.owner : o.ref = ReqKey /\ o.controller

\* A copy was applied from the remote secret that another party owns.
C13_Witness ==
    \E w \in Workers :
        /\ Done(w) /\ AppliedSecret(w)
        /\ HoldsSecret(rs[w], SecretKey(reRemote[w]))
        /\ rs[w].owner = {[ref |-> RemoteOwner, controller |-> TRUE]}
        /\ rs[w].data = MaxData /\ lsecret.data = MaxData

----------------------------------------------------------------------------
\* The invocation fetched the remote secret and the fetch returned e.
SecretFetch(w, e) == Op("remote", "Get", "secret", e) \in Calls(w)
\* The invocation wrote the status of the remote instance to the local one.
StatusSynced(w) == Op("local", "StatusUpdate", ReqKey, Nil) \in Calls(w)

\* C14: an invocation whose fetch of the remote secret reports not-found,
\* which it issues only after the sync of spec and status succeeded, returns
\* no error with the long wait and applies no secret to the local store; an
\* invocation whose fetch fails otherwise returns that failure with the
\* short wait, and applies no secret either.
C14_SecretDeferred ==
    \A w \in Workers :
        /\ SecretFetch(w, NotFound) =>
              /\ Done(w) /\ StatusSynced(w)
              /\ result[w] = Result(longWait, NilErr)
              /\ Issued(w, "local", "Apply") = {}
        /\ \A e \in {Boom, Conflict, Exists} :
              SecretFetch(w, e) =>
                  /\ Done(w)
                  /\ result[w] = Result(shortWait, Wrap(e, remote \o errGetSecret))
                  /\ Issued(w, "local", "Apply") = {}

C14_Witness ==
    \E w \in Workers :
        /\ Done(w) /\ StatusSynced(w) /\ SecretFetch(w, NotFound)
        /\ ~rsecret.exists /\ rstore.ref /\ lsecret = NoSecret

\* The fetch of the remote secret failed for another reason than absence.
C14_WitnessFailure == \E w \in Workers : Done(w) /\ SecretFetch(w, Boom)

----------------------------------------------------------------------------
\* The call an invocation issued last, and the step that issues a call.
LastOp(w) == ops[w][Len(ops[w])]
IssuesCall(w) == ops'[w] # ops[w] /\ ops'[w] # <<>>
AtLocalUpdate(w) == pc[w] \in {"addFinalizer", "localUpdate", "localStatusUpdate"}
AtRemoteUpdate(w) == pc[w] = "remoteUpdate"

\* Two invocations are about to update the instance they both read at the
\* version the store holds.
SameVersion(w, v) ==
    \/ AtLocalUpdate(w) /\ AtLocalUpdate(v) /\ reSeen[w] = lstore /\ reSeen[v] = lstore
    \/ AtRemoteUpdate(w) /\ AtRemoteUpdate(v) /\ rrSeen[w] = rstore /\ rrSeen[v] = rstore
\* The store holds another version than the one the invocation read and is
\* about to update.
Outdated(w) ==
    \/ AtLocalUpdate(w) /\ lstore.exists /\ reSeen[w] # lstore
    \/ AtRemoteUpdate(w) /\ rstore.exists /\ rrSeen[w] # rstore

\* C15 as stated: of two invocations of the identity that read the instance
\* at the same version and both attempt an Update, exactly one succeeds: the
\* Update issued first succeeds and leaves the other invocation outdated.
C15_ExactlyOneUpdate ==
    [][\A w \in Workers : \A v \in Workers \ {w} :
          SameVersion(w, v) /\ IssuesCall(w) =>
              LastOp(w)'.err = Nil /\ Outdated(v)']_vars

\* C15 amended: of two invocations of the identity that read the instance at
\* the same version and both attempt an Update, the first one succeeds; when
\* it changed the stored instance the other one is outdated, and the Update
\* of an outdated invocation gets a conflict: the stores keep what they hold,
\* the invocation issues no further call and returns the conflict with the
\* short wait. An Update that changes nothing leaves the version, and the
\* Update of the other invocation succeeds as well.
C15_ConflictingUpdate ==
    [][\A w \in Workers :
         /\ \A v \in Workers \ {w} :
              SameVersion(w, v) /\ IssuesCall(w) =>
                  /\ LastOp(w)'.err = Nil
                  /\ (lstore' # lstore \/ rstore' # rstore) => Outdated(v)'
         /\ Outdated(w) /\ IssuesCall(w) =>
              /\ LastOp(w)'.err = Conflict
              /\ lstore' = lstore /\ rstore' = rstore
              /\ pc'[w] = "done"
              /\ result'[w].RequeueAfter = shortWait
              /\ result'[w].err # NilErr /\ result'[w].err.cause = Conflict]_vars

\* One invocation wrote the desired state to the remote instance and the
\* other, which had read the remote instance before that write, got a conflict.
C15_Witness ==
    \E w \in Workers : \E v \in Workers \ {w} :
        /\ Op("remote", "Update", ReqKey, Nil) \in Calls(w)
        /\ Done(v) /\ LastOp(v) = Op("remote", "Update", ReqKey, Conflict)
        /\ rrSeen[v].spec # rstore.spec /\ rstore.spec = lstore.spec

\* Both invocations updated the local instance from the same version: the
\* Update issued first changed nothing.
C15_WitnessBoth ==
    \E w \in Workers : \E v \in Workers \ {w} :
        /\ Op("local", "Update", ReqKey, Nil) \in Calls(w)
        /\ Op("local", "Update", ReqKey, Nil) \in Calls(v)
        /\ reSeen[w] = lstore /\ reSeen[v] = lstore

----------------------------------------------------------------------------
\* A pass of Cleanup is under way: the local list is taken, the pass has not ended.
MidPass(w) == pc[w] \in {"listRemote", "delete"}
\* An invocation is under way and has issued store calls.
InFlight(w) == pc[w] \notin {"idle", "done"} /\ ops[w] # <<>>

\* C16: while a sweep pass over a family is under way, no invocation for an
\* identity of the family is in the middle of its store calls and no other
\* sweep pass is under way.
C16_SweepNotInterleaved ==
    \A w \in Workers : MidPass(w) => \A v \in Workers \ {w} : ~InFlight(v)

----------------------------------------------------------------------------
\* The error Reconcile returns when a call of Cleanup failed with e.
CleanupFailure(e, m) == Result(shortWait, WrapErr(Wrap(e, m), "cannot clean up local cluster"))
ListFailed(w, side) == \E i \in Issued(w, side, "List") : ops[w][i].err # Nil
Deletes(w) == Issued(w, "local", "Delete")

\* C17: a failed local or remote list ends Cleanup before any Delete and
\* Reconcile returns the failure; after a Delete that reports not-found the
\* name is off the removal set and the pass goes on with the names left, or
\* ends without error when none is left; any other failed Delete is the last
\* call of the invocation, the name it failed on and the names left stay in
\* the removal set, and Reconcile returns the failure.
C17_CleanupFailure ==
    \A w \in Workers :
        /\ ListFailed(w, "local") =>
              /\ Done(w) /\ Deletes(w) = {} /\ Issued(w, "remote", "List") = {}
              /\ result[w] = CleanupFailure(LastOp(w).err,
                                            "cannot list instances in local cluster")
        /\ ListFailed(w, "remote") =>
              /\ Done(w) /\ Deletes(w) = {}
              /\ result[w] = CleanupFailure(LastOp(w).err,
                                            "cannot list instances in remote cluster")
        /\ \A i \in Deletes(w) :
              /\ ops[w][i].err \in {Nil, NotFound} =>
                    /\ ops[w][i].key \notin removalList[w]
                    /\ i = Len(ops[w]) =>
                          IF removalList[w] = {}
                          THEN Done(w) /\ result[w] = Result(shortWait, NilErr)
                          ELSE pc[w] = "delete"
              /\ ops[w][i].err \notin {Nil, NotFound} =>
                    /\ i = Len(ops[w]) /\ Done(w)
                    /\ ops[w][i].key \in removalList[w]
                    /\ result[w] = CleanupFailure(ops[w][i].err,
                                                  "cannot delete instance in local cluster")

\* A Delete failed while another name was left in the removal set.
C17_Witness ==
    \E w \in Workers :
        /\ Done(w) /\ LastOp(w).verb = "Delete" /\ LastOp(w).err = Boom
        /\ Cardinality(removalList[w]) > 1
        /\ \A n \in removalList[w] : slocal[n] # 0

\* A Delete reported not-found and the pass goes on with the name left.
C17_WitnessNotFound ==
    \E w \in Workers :
        /\ pc[w] = "delete" /\ LastOp(w).verb = "Delete" /\ LastOp(w).err = NotFound
        /\ removalList[w] # {}

\* A list failed.
C17_WitnessList ==
    \E w \in Workers : Done(w) /\ ListFailed(w, "remote") /\ listed[w].local # {}

----------------------------------------------------------------------------
\* The stores of the requirement family hold what a fully successful
\* invocation leaves: the finalizer on the local instance, the desired state
\* of the local instance on the remote one, the status of the remote instance
\* on the local one and, with a reference declared, the copy of the remote secret.
SyncedReq ==
    /\ lstore.exists /\ ~lstore.deleted /\ lstore.fin
    /\ rstore.exists /\ rstore.spec = lstore.spec /\ rstore.ref = lstore.ref
    /\ lstore.status = rstore.status
    /\ lstore.ref =>
          /\ rsecret.exists /\ lsecret.exists
          /\ lsecret.data = rsecret.data
          /\ lsecret.name = LocalSecretName /\ lsecret.namespace = LocalNamespace
          /\ \E o \in lsecret.owner : o.ref = ReqKey /\ o.controller
\* The stores of the syncer's family hold what a fully successful invocation
\* for n leaves: the local copy of n as the remote instance is, no local
\* instance without a remote one.
SyncedSync(n) ==
    /\ slocal[n] = sremote[n]
    /\ Present(slocal) \subseteq Present(sremote)

\* C18: with no change from outside while an invocation runs, the stores are
\* synced when a fully successful invocation has ended, and a store call
\* that an invocation issues while the stores are synced changes no object
\* of either store; for the requirement reconciler and the cluster syncer.
C18_Idempotent ==
    /\ [](\A w \in Workers :
            /\ FullSuccess(w) /\ req[w] = ReqKey => SyncedReq
            /\ FullSuccess(w) /\ req[w] \in Names => SyncedSync(req[w]))
    /\ [][\A w \in Workers :
            /\ IssuesCall(w) /\ req[w] = ReqKey /\ SyncedReq => reqStores' = reqStores
            /\ IssuesCall(w) /\ req[w] \in Names /\ SyncedSync(req[w]) =>
                  syncStores' = syncStores]_vars

\* A second invocation of the requirement reconciler is about to apply the
\* secret copy that the local store already holds.
C18_Witness ==
    \E w \in Workers :
        /\ pc[w] = "localApplySecret" /\ SyncedReq
        /\ Op("local", "StatusUpdate", ReqKey, Nil) \in Calls(w)
        /\ Op("remote", "Update", ReqKey, Nil) \in Calls(w)
        /\ rs[w] = rsecret

\* A second invocation of the syncer for a synced identity has ended.
C18_WitnessSync ==
    \E w \in Workers :
        /\ FullSuccess(w) /\ sweep[w] = "again" /\ SyncedSync(req[w])
        /\ sremote[req[w]] = MaxGen
        /\ Op("local", "Apply", req[w], Nil) \in Calls(w)

----------------------------------------------------------------------------
\* The i-th call of the invocation was issued after the call o.
IssuedAfter(w, i, o) == \E j \in DOMAIN ops[w] : j < i /\ ops[w][j] = o

\* C19: when a fully successful invocation for an instance without deletion
\* timestamp has ended and the stores hold what it read and wrote, the remote
\* instance has the desired state of the local one and the local instance
\* the status of the remote one; an invocation writes the status to the
\* local store only after its remote Update and its local Update succeeded;
\* and no call of the reconciler changes the status of the remote instance.
C19_AuthorityDirections ==
    /\ [](\A w \in Workers :
            /\ FullSuccess(w) /\ req[w] = ReqKey /\ reSeen[w] = lstore /\ rrSeen[w] = rstore =>
                  /\ rstore.spec = lstore.spec /\ rstore.ref = lstore.ref
                  /\ lstore.status = rstore.status
            /\ \A i \in Issued(w, "local", "StatusUpdate") :
                  /\ IssuedAfter(w, i, Op("remote", "Update", ReqKey, Nil))
                  /\ IssuedAfter(w, i, Op("local", "Update", ReqKey, Nil)))
    /\ [][\A w \in Workers :
            IssuesCall(w) /\ req[w] = ReqKey /\ rstore'.exists =>
                rstore'.status = rstore.status]_vars

\* A fully successful invocation wrote a desired state that the remote
\* instance did not have and a status that the local instance did not have.
C19_Witness ==
    \E w \in Workers :
        /\ FullSuccess(w) /\ req[w] = ReqKey /\ ~WasDeleted(re[w])
        /\ reSeen[w] = lstore /\ rrSeen[w] = rstore
        /\ lstore.spec # MaxSpec /\ rstore.spec = lstore.spec
        /\ lstore.status = MaxStatus /\ rstore.status = MaxStatus

----------------------------------------------------------------------------
\* The call of the deletion protocol that failed in the invocation, if the
\* invocation read a deletion timestamp and its last call is a failed remote
\* Get, remote Delete or RemoveFinalizer.
ProtocolFailure(w) ==
    /\ req[w] = ReqKey /\ SawDeleted(w) /\ Len(ops[w]) > 1
    /\ LastOp(w).err \notin {Nil, NotFound}
ProtocolMessage(o) ==
    IF o.verb = "Get" THEN remote \o errGetRequirement
    ELSE IF o.verb = "Delete" THEN remote \o errDeleteRequirement
    ELSE local \o errRemoveFinalizer

\* C20: when a remote Get, a remote Delete or a RemoveFinalizer fails in an
\* invocation that read a deletion timestamp (not-found apart), the call is
\* the last one of the invocation, no earlier call of it wrote to a store,
\* the local instance still exists with its deletion timestamp and its
\* finalizer, and Reconcile returns the failure with the short wait.
C20_DeletionProtocolFailure ==
    \A w \in Workers :
        /\ \A i \in DOMAIN ops[w] :
              req[w] = ReqKey /\ SawDeleted(w) /\ i > 1 /\ ops[w][i].err \notin {Nil, NotFound} =>
                  i = Len(ops[w])
        /\ ProtocolFailure(w) =>
              /\ Done(w)
              /\ LastOp(w).verb \in {"Get", "Delete", "RemoveFinalizer"}
              /\ \A i \in 1..(Len(ops[w]) - 1) : ~IsWrite(ops[w][i])
              /\ lstore.exists /\ lstore.deleted /\ lstore.fin /\ lstore = reSeen[w]
              /\ result[w] = Result(shortWait, Wrap(LastOp(w).err, ProtocolMessage(LastOp(w))))

\* The remote Delete failed.
C20_Witness ==
    \E w \in Workers :
        /\ Done(w) /\ ProtocolFailure(w)
        /\ LastOp(w) = Op("remote", "Delete", ReqKey, Boom)
        /\ rstore.exists /\ lstore.fin

\* The remote Get failed; RemoveFinalizer failed.
C20_WitnessGet ==
    \E w \in Workers :
        Done(w) /\ ProtocolFailure(w) /\ LastOp(w) = Op("remote", "Get", ReqKey, Boom)
C20_WitnessRemove ==
    \E w \in Workers :
        /\ Done(w) /\ ProtocolFailure(w) /\ LastOp(w).verb = "RemoveFinalizer"
        /\ ~rstore.exists

----------------------------------------------------------------------------
\* C21 as stated, its conclusion: no remote instance comes into being while
\* the local instance carries a deletion timestamp.
C21_NoCreateOnceDeleted ==
    [][~rstore.exists /\ rstore'.exists => ~lstore.deleted]_vars

\* C21 amended: an invocation issues a remote Delete only if it read a
\* deletion timestamp on the local instance, and an invocation that read one
\* issues no AddFinalizer, no remote Create or Update, no Update of the local
\* instance or of its status and no Apply of a secret: its only writes are
\* the remote Delete or RemoveFinalizer. An invocation that read the instance
\* before deletion was requested is not covered.
C21_DeletionFrame ==
    \A w \in Workers :
        req[w] = ReqKey =>
            /\ Issued(w, "remote", "Delete") # {} => SawDeleted(w)
            /\ SawDeleted(w) =>
                  \A o \in Calls(w) :
                      IsWrite(o) => \/ o.side = "remote" /\ o.verb = "Delete"
                                    \/ o.side = "local" /\ o.verb = "RemoveFinalizer"

\* An invocation that read the deletion timestamp deleted the remote instance.
C21_Witness ==
    \E w \in Workers :
        /\ Done(w) /\ SawDeleted(w)
        /\ Op("remote", "Delete", ReqKey, Nil) \in Calls(w)
        /\ lstore.deleted /\ lstore.fin

----------------------------------------------------------------------------
\* C22: in every interleaving of invocations the cluster syncer issues only
\* Get and List against the remote store; its local writes are an Apply of
\* the requested identity, issued after the remote Get of that identity
\* succeeded in the same invocation, and Deletes of names that the remote
\* list read earlier in the same invocation did not hold; a list is issued
\* only after the Apply of the invocation succeeded.
C22_SyncerWrites ==
    \A w \in Workers :
        req[w] \in Names =>
            /\ RemoteWrites(w) = {}
            /\ \A i \in DOMAIN ops[w] :
                  LET o == ops[w][i] IN
                  /\ o.side = "local" /\ IsWrite(o) =>
                        \/ /\ o.verb = "Apply" /\ o.key = req[w]
                           /\ IssuedAfter(w, i, Op("remote", "Get", req[w], Nil))
                        \/ /\ o.verb = "Delete"
                           /\ IssuedAfter(w, i, Op("remote", "List", "*", Nil))
                           /\ o.key \notin listed[w].remote
                  /\ o.verb \in {"List", "Delete"} =>
                        IssuedAfter(w, i, Op("local", "Apply", req[w], Nil))

\* An invocation applied its identity and swept a name off the local store
\* while another invocation was under way.
C22_Witness ==
    \E w \in Workers :
        /\ Done(w) /\ req[w] \in Names
        /\ Op("local", "Apply", req[w], Nil) \in Calls(w)
        /\ \E n \in Names : Op("local", "Delete", n, Nil) \in Calls(w)
        /\ \E v \in Workers \ {w} : InFlight(v)

====
